---- MODULE Spec2Model ----
(***************************************************************************)
(* A model of ax/core/search_space.py: the SearchSpace container, its      *)
(* mutators (add_parameter, update_parameter, set_parameter_constraints,   *)
(* add_parameter_constraints), its queries (check_membership,             *)
(* check_types), its arm operations (cast_arm, construct_arm,              *)
(* out_of_design_arm), clone, and HierarchicalSearchSpace.                 *)
(*                                                                         *)
(* Python objects are modelled by value plus identity.  A Parameter is a   *)
(* record whose `copy` field is its identity: two records that differ only *)
(* in `copy` are two distinct Parameter objects that compare equal with    *)
(* `==`.  SearchSpace never mutates a Parameter in place, so a reference   *)
(* to a Parameter is modelled by the record itself.  A constraint holds    *)
(* references to Parameters (order/sum constraints) or names               *)
(* (attribute-style constraints).                                          *)
(***************************************************************************)
EXTENDS Integers, Sequences, FiniteSets, TLC

VARIABLES
    constructed,            \* "no" before SearchSpace.__init__, then "yes" or "failed"
    parameters,             \* self._parameters: name -> Parameter
    parameter_constraints,  \* self._parameter_constraints: sequence of constraints
    last,                   \* the last call: operation, arguments, outcome
    clone,                  \* the space a clone() call returned, if any
    hss,                    \* HierarchicalSearchSpace: _root, _all_parameter_names
    caller,                 \* the list object the caller handed over as the constraints
    walk                    \* the call stack of _check_subtree while __init__ runs

vars == <<constructed, parameters, parameter_constraints, last, clone, hss, caller, walk>>

(***************************************************************************)
(* Bounds.                                                                 *)
(***************************************************************************)
\* Largest integer value of a parameterization entry.
MaxVal == 1
\* Longest parameter list handed to the constructor.
MaxParams == 2
\* The interpreter's recursion limit, counted in _check_subtree frames: the
\* call that would open one frame more raises RecursionError.
RecursionLimit == 4
\* Cap on the length of the space's own constraint list (add_parameter_constraints
\* is not called once the list would grow past it).
MaxConstraints == 2

Names == {"a", "b"}

(***************************************************************************)
(* Parameter (ax.core.parameter, outside this module's source): a name, a  *)
(* parameter_type, a domain (here 0..upper) and an object identity.        *)
(***************************************************************************)
Param(n, t, u, c) == [name |-> n, parameter_type |-> t, upper |-> u, copy |-> c]

\* The Parameter objects a caller creates.  Name "a" is always numeric, so
\* that an attribute-style constraint over "a" is always evaluated on a
\* numeric value; name "b" occurs with both types.
ParamPool ==
    {Param("a", "INT", 0, 1), Param("a", "INT", 0, 2), Param("a", "INT", 1, 1),
     Param("b", "INT", 1, 1), Param("b", "STRING", 0, 1)}

NumericPool == {p \in ParamPool : p.parameter_type = "INT"}

\* Base.__eq__ on Parameters: equality of the attributes, not of identity.
ParamEq(p, q) ==
    /\ p.name = q.name
    /\ p.parameter_type = q.parameter_type
    /\ p.upper = q.upper

is_numeric(p) == p.parameter_type = "INT"

(***************************************************************************)
(* Values of a parameterization: integers, one string, None.               *)
(***************************************************************************)
IntVal(n) == [t |-> "int", v |-> n]
StrVal == [t |-> "str", v |-> 0]
None == [t |-> "none", v |-> 0]
Values == {IntVal(n) : n \in 0..MaxVal} \cup {StrVal, None}

is_valid_type(p, val) ==
    \/ p.parameter_type = "INT" /\ val.t = "int"
    \/ p.parameter_type = "STRING" /\ val.t = "str"

validate(p, val) == is_valid_type(p, val) /\ val.v <= p.upper

(***************************************************************************)
(* Constraints.  kind "order": parameters = <<lower, upper>>;              *)
(* kind "sum": parameters is the summed list; kind "attr": a plain         *)
(* ParameterConstraint with a constraint_dict (all coefficients 1).        *)
(***************************************************************************)
OrderConstraint(lo, up) ==
    [kind |-> "order", parameters |-> <<lo, up>>, constraint_dict |-> {}, bound |-> 0]
SumConstraint(ps, b) ==
    [kind |-> "sum", parameters |-> ps, constraint_dict |-> {}, bound |-> b]
ParameterConstraint(ns, b) ==
    [kind |-> "attr", parameters |-> <<>>, constraint_dict |-> ns, bound |-> b]

\* The constraint objects a caller creates.
ConstraintPool ==
    {OrderConstraint(lo, up) :
        lo \in {p \in NumericPool : p.name = "a"},
        up \in {p \in NumericPool : p.name = "b"}}
        \cup {SumConstraint(<<p>>, 0) : p \in {q \in NumericPool : q.name = "b"}}
        \cup {ParameterConstraint({"a"}, 0)}

SeqsUpTo(S, n) == UNION {[1..k -> S] : k \in 0..n}

Min(S) == CHOOSE x \in S : \A y \in S : x <= y

(***************************************************************************)
(* _validate_parameter_constraints: the first error met, or "none".        *)
(***************************************************************************)
\* Variant: only the name is looked up, the definitions are not compared.
ParamErrorMissingOnly(params, p) ==
    IF p.name \notin DOMAIN params THEN "unknown_param" ELSE "none"

ParamError(params, p) ==
    IF p.name \notin DOMAIN params THEN "unknown_param"
    ELSE IF ~ParamEq(p, params[p.name]) THEN "definition_mismatch"
    ELSE "none"

ConstraintError(params, c) ==
    IF c.kind \in {"order", "sum"}
    THEN LET bad == {i \in DOMAIN c.parameters :
                        ParamError(params, c.parameters[i]) # "none"}
         IN  IF bad = {} THEN "none"
             ELSE ParamError(params, c.parameters[Min(bad)])
    ELSE IF \E n \in c.constraint_dict : n \notin DOMAIN params
         THEN "unknown_param"
         ELSE "none"

validate_parameter_constraints(params, cs) ==
    LET bad == {i \in DOMAIN cs : ConstraintError(params, cs[i]) # "none"}
    IN  IF bad = {} THEN "none" ELSE ConstraintError(params, cs[Min(bad)])

(***************************************************************************)
(* The rebinding loop of set_parameter_constraints: every Parameter        *)
(* reference of an order/sum constraint becomes the space's own object.    *)
(***************************************************************************)
Rebind(params, c) ==
    IF c.kind \in {"order", "sum"}
    THEN [c EXCEPT !.parameters =
            [i \in DOMAIN c.parameters |-> params[c.parameters[i].name]]]
    ELSE c

RebindAll(params, cs) == [i \in DOMAIN cs |-> Rebind(params, cs[i])]

(***************************************************************************)
(* The call record.                                                        *)
(***************************************************************************)
\* A constructor or mutator call: ok is FALSE when it raised, err says which
\* raise statement; ps is the Parameter argument(s); cs_in is the constraint
\* list argument as handed in and cs_out the same list as the caller sees it
\* after the call.
Call(op, ok, err, ps, cs_in, cs_out) ==
    [op |-> op, ok |-> ok, err |-> err, ps |-> ps,
     cs_in |-> cs_in, cs_out |-> cs_out,
     pz |-> <<>>, raise_error |-> FALSE, allow_none |-> FALSE,
     ret |-> "none", checks |-> 0,
     has_params |-> FALSE, arm_name |-> "<None>", out |-> <<>>, out_name |-> "<None>",
     target |-> "self"]

\* A query call on parameterization pz: ret is "True", "False" or "raised",
\* err the condition that failed, checks the number of constraint.check calls.
QueryCall(op, pz, raise_error, allow_none, r) ==
    [op |-> op, ok |-> r.ret # "raised", err |-> r.err, ps |-> <<>>,
     cs_in |-> <<>>, cs_out |-> <<>>,
     pz |-> pz, raise_error |-> raise_error, allow_none |-> allow_none,
     ret |-> r.ret, checks |-> r.checks,
     has_params |-> FALSE, arm_name |-> "<None>", out |-> <<>>, out_name |-> "<None>",
     target |-> "self"]

\* An arm call.  pz and arm_name are the parameterization and the name handed
\* in (has_params is FALSE when construct_arm gets parameters=None); out and
\* out_name are the parameters and the name of the Arm returned.
ArmCall(op, pz, has_params, arm_name, r) ==
    [op |-> op, ok |-> r.ok, err |-> r.err, ps |-> <<>>,
     cs_in |-> <<>>, cs_out |-> <<>>,
     pz |-> pz, raise_error |-> FALSE, allow_none |-> FALSE,
     ret |-> "none", checks |-> 0,
     has_params |-> has_params, arm_name |-> arm_name,
     out |-> r.out, out_name |-> r.out_name,
     target |-> "self"]

NoParams == [n \in {} |-> Param("a", "INT", 0, 1)]

\* No clone has been taken.
NoClone ==
    [exists |-> "no", parameters |-> NoParams, parameter_constraints |-> <<>>,
     shares_dict |-> FALSE, shares_list |-> FALSE, shares_constraints |-> {}]

\* No HierarchicalSearchSpace has been constructed.
NoHss ==
    [state |-> "none", root |-> "none", all_parameter_names |-> {},
     err |-> "none", what |-> "none", err_names |-> {}]

\* The caller's side of the constraint list.  list: the elements of the list
\* object the space last accepted from its caller (constructor or
\* set_parameter_constraints); held: self._parameter_constraints is that very
\* object; second, second_pcs: a second SearchSpace constructed with the same
\* list object and its parameter_constraints; second_held: the second space's
\* _parameter_constraints is that object too.
NoCaller ==
    [list |-> <<>>, held |-> FALSE, second |-> "no", second_pcs |-> <<>>,
     second_held |-> FALSE]

\* set_parameter_constraints accepted the caller's list: the constraints are
\* rebound in place and the list object itself becomes
\* self._parameter_constraints, unless it is the new list of
\* "parameter_constraints or []" (aliased is FALSE then).
Handed(c, pcs, aliased) ==
    [c EXCEPT !.list = pcs, !.held = aliased, !.second_held = FALSE]

\* self._parameter_constraints.extend(cs) as seen through the caller's list
\* object and by the second space.
Extended(c, cs) ==
    [c EXCEPT !.list = IF c.held THEN @ \o cs ELSE @,
              !.second_pcs = IF c.held /\ c.second_held THEN @ \o cs ELSE @]

\* No _check_subtree call is running.
NoWalk == [state |-> "idle", stack |-> <<>>]

Init ==
    /\ constructed = "no"
    /\ parameters = NoParams
    /\ parameter_constraints = <<>>
    /\ clone = NoClone
    /\ hss = NoHss
    /\ caller = NoCaller
    /\ walk = NoWalk
    /\ last = Call("none", TRUE, "none", <<>>, <<>>, <<>>)

\* Variant: each constraint is rebound as soon as it has passed validation,
\* so a failure on a later constraint leaves the earlier ones rebound.
SetOutcomeEager(params, pcs, cs) ==
    LET bad == {i \in DOMAIN cs : ConstraintError(params, cs[i]) # "none"}
    IN  IF bad # {}
        THEN [ok |-> FALSE, err |-> ConstraintError(params, cs[Min(bad)]), pcs |-> pcs,
              cs_out |-> [i \in DOMAIN cs |->
                            IF i < Min(bad) THEN Rebind(params, cs[i]) ELSE cs[i]]]
        ELSE [ok |-> TRUE, err |-> "none",
              pcs |-> RebindAll(params, cs), cs_out |-> RebindAll(params, cs)]

(***************************************************************************)
(* set_parameter_constraints(cs) on a space whose parameters are params:   *)
(* the outcome, the new constraint list and the caller's list after the    *)
(* call (the same list object as the space's on success).                  *)
(***************************************************************************)
SetOutcome(params, pcs, cs) ==
    LET err == validate_parameter_constraints(params, cs)
    IN  IF err # "none"
        THEN [ok |-> FALSE, err |-> err, pcs |-> pcs, cs_out |-> cs]
        ELSE [ok |-> TRUE, err |-> "none",
              pcs |-> RebindAll(params, cs), cs_out |-> RebindAll(params, cs)]

\* Variant: add_parameter_constraints replaces the list by its argument.
AddOutcomeReplaces(params, pcs, cs) ==
    LET err == validate_parameter_constraints(params, cs)
    IN  IF err # "none"
        THEN [ok |-> FALSE, err |-> err, pcs |-> pcs, cs_out |-> cs]
        ELSE [ok |-> TRUE, err |-> "none", pcs |-> cs, cs_out |-> cs]

\* add_parameter_constraints(cs): validation, then extend; no rebinding.
AddOutcome(params, pcs, cs) ==
    LET err == validate_parameter_constraints(params, cs)
    IN  IF err # "none"
        THEN [ok |-> FALSE, err |-> err, pcs |-> pcs, cs_out |-> cs]
        ELSE [ok |-> TRUE, err |-> "none", pcs |-> pcs \o cs, cs_out |-> cs]

\* Variant: the uniqueness test is left out.
HasDuplicateNamesUnchecked(ps) == FALSE

\* len({p.name for p in parameters}) < len(parameters)
HasDuplicateNames(ps) ==
    Cardinality({ps[i].name : i \in DOMAIN ps}) < Len(ps)

\* {p.name: p for p in parameters}: a later entry replaces an earlier one.
DictOf(ps) ==
    [n \in {ps[i].name : i \in DOMAIN ps} |->
        ps[CHOOSE i \in DOMAIN ps :
              /\ ps[i].name = n
              /\ \A j \in DOMAIN ps : ps[j].name = n => j <= i]]

\* SearchSpace.__init__(parameters=ps, parameter_constraints=cs)
SearchSpace(ps, cs) ==
    /\ UNCHANGED <<clone, hss, walk>>
    /\ IF HasDuplicateNames(ps)
       THEN /\ last' = Call("init", FALSE, "duplicate_names", ps, cs, cs)
            /\ constructed' = "failed"
            /\ UNCHANGED <<parameters, parameter_constraints, caller>>
       ELSE LET r == SetOutcome(DictOf(ps), <<>>, cs)
            IN  /\ last' = Call("init", r.ok, r.err, ps, cs, r.cs_out)
                /\ IF r.ok
                   THEN /\ constructed' = "yes"
                        /\ parameters' = DictOf(ps)
                        /\ parameter_constraints' = r.pcs
                        /\ caller' = Handed(caller, r.pcs, cs # <<>>)
                   ELSE /\ constructed' = "failed"
                        /\ UNCHANGED <<parameters, parameter_constraints, caller>>

set_parameter_constraints(cs) ==
    /\ LET r == SetOutcome(parameters, parameter_constraints, cs)
       IN  /\ parameter_constraints' = r.pcs
           /\ last' = Call("set_parameter_constraints", r.ok, r.err, <<>>, cs, r.cs_out)
           /\ caller' = IF r.ok THEN Handed(caller, r.pcs, TRUE) ELSE caller
    /\ UNCHANGED <<constructed, parameters, clone, hss, walk>>

add_parameter_constraints(cs) ==
    /\ LET r == AddOutcome(parameters, parameter_constraints, cs)
       IN  /\ parameter_constraints' = r.pcs
           /\ last' = Call("add_parameter_constraints", r.ok, r.err, <<>>, cs, r.cs_out)
           /\ caller' = IF r.ok THEN Extended(caller, cs) ELSE caller
    /\ UNCHANGED <<constructed, parameters, clone, hss, walk>>

\* Variant: the existence test is left out, the entry is overwritten.
add_parameterOverwrites(p) ==
    /\ parameters' = [n \in DOMAIN parameters \cup {p.name} |->
                         IF n = p.name THEN p ELSE parameters[n]]
    /\ last' = Call("add_parameter", TRUE, "none", <<p>>, <<>>, <<>>)
    /\ UNCHANGED <<constructed, parameter_constraints, clone, hss, caller, walk>>

add_parameter(p) ==
    /\ IF p.name \in DOMAIN parameters
       THEN /\ last' = Call("add_parameter", FALSE, "exists", <<p>>, <<>>, <<>>)
            /\ UNCHANGED parameters
       ELSE /\ parameters' = [n \in DOMAIN parameters \cup {p.name} |->
                                 IF n = p.name THEN p ELSE parameters[n]]
            /\ last' = Call("add_parameter", TRUE, "none", <<p>>, <<>>, <<>>)
    /\ UNCHANGED <<constructed, parameter_constraints, clone, hss, caller, walk>>

\* Variant: the parameter_type comparison is left out.
update_parameterAnyType(p) ==
    /\ IF p.name \notin DOMAIN parameters
       THEN /\ last' = Call("update_parameter", FALSE, "absent", <<p>>, <<>>, <<>>)
            /\ UNCHANGED parameters
       ELSE /\ parameters' = [parameters EXCEPT ![p.name] = p]
            /\ last' = Call("update_parameter", TRUE, "none", <<p>>, <<>>, <<>>)
    /\ UNCHANGED <<constructed, parameter_constraints, clone, hss, caller, walk>>

update_parameter(p) ==
    /\ IF p.name \notin DOMAIN parameters
       THEN /\ last' = Call("update_parameter", FALSE, "absent", <<p>>, <<>>, <<>>)
            /\ UNCHANGED parameters
       ELSE IF p.parameter_type # parameters[p.name].parameter_type
       THEN /\ last' = Call("update_parameter", FALSE, "type_mismatch", <<p>>, <<>>, <<>>)
            /\ UNCHANGED parameters
       ELSE /\ parameters' = [parameters EXCEPT ![p.name] = p]
            /\ last' = Call("update_parameter", TRUE, "none", <<p>>, <<>>, <<>>)
    /\ UNCHANGED <<constructed, parameter_constraints, clone, hss, caller, walk>>

ParamLists == SeqsUpTo(ParamPool, MaxParams)
\* The constraint lists handed to one call: every list of at most two
\* constraints of the pool.
ConstraintLists == SeqsUpTo(ConstraintPool, 2)

(***************************************************************************)
(* Queries.  A parameterization is a Python dict: a sequence of            *)
(* [name, value] entries with distinct names, in insertion order.          *)
(***************************************************************************)
Entry(n, val) == [name |-> n, value |-> val]

Parameterizations ==
    {pz \in SeqsUpTo({Entry(n, val) : n \in Names, val \in Values}, 2) :
        \A i, j \in DOMAIN pz : pz[i].name = pz[j].name => i = j}

\* float(value) of an integer value.
ToFloat(val) == val.v

\* numerical_param_dict: name -> float(value) for the is_numeric parameters.
numerical_param_dict(params, pz) ==
    [n \in {pz[i].name : i \in {j \in DOMAIN pz : is_numeric(params[pz[j].name])}} |->
        ToFloat(pz[CHOOSE i \in DOMAIN pz : pz[i].name = n].value)]

RECURSIVE SumOver(_, _)
SumOver(d, ns) ==
    IF ns = {} THEN 0
    ELSE LET n == CHOOSE x \in ns : TRUE IN d[n] + SumOver(d, ns \ {n})

\* ParameterConstraint.check(values): lower <= upper for an order constraint,
\* the sum of the named values <= bound otherwise.
check(c, d) ==
    IF c.kind = "order"
    THEN d[c.parameters[1].name] <= d[c.parameters[2].name]
    ELSE IF c.kind = "sum"
    THEN SumOver(d, {c.parameters[i].name : i \in DOMAIN c.parameters}) <= c.bound
    ELSE SumOver(d, c.constraint_dict) <= c.bound

\* Variant: raise_error is ignored.
FailsNeverRaises(raise_error, err, checks) ==
    [ret |-> "False", err |-> err, checks |-> checks]

\* `return False`, or `raise ValueError` when raise_error is set.
Fails(raise_error, err, checks) ==
    [ret |-> IF raise_error THEN "raised" ELSE "False", err |-> err, checks |-> checks]

\* Variant: the value is not validated.
EntryErrorNameOnly(params, e) ==
    IF e.name \notin DOMAIN params THEN "unknown_name" ELSE "none"

EntryError(params, e) ==
    IF e.name \notin DOMAIN params THEN "unknown_name"
    ELSE IF ~validate(params[e.name], e.value) THEN "invalid_value"
    ELSE "none"

check_membership(params, pcs, pz, raise_error) ==
    IF Len(pz) # Cardinality(DOMAIN params)
    THEN Fails(raise_error, "cardinality", 0)
    ELSE LET bad == {i \in DOMAIN pz : EntryError(params, pz[i]) # "none"}
         IN  IF bad # {}
             THEN Fails(raise_error, EntryError(params, pz[Min(bad)]), 0)
             ELSE LET d == numerical_param_dict(params, pz)
                      violated == {i \in DOMAIN pcs : ~check(pcs[i], d)}
                  IN  IF violated # {}
                      THEN Fails(raise_error, "constraint", Min(violated))
                      ELSE [ret |-> "True", err |-> "none", checks |-> Len(pcs)]

\* Variant: check_types is check_membership under another name.
check_typesAsMembership(params, pcs, pz, allow_none, raise_error) ==
    check_membership(params, pcs, pz, raise_error)

\* Variant: allow_none is not looked at, None is checked like any value.
TypeErrorNoneChecked(params, e, allow_none) ==
    IF e.name \notin DOMAIN params THEN "unknown_name"
    ELSE IF ~is_valid_type(params[e.name], e.value) THEN "invalid_value"
    ELSE "none"

TypeError(params, e, allow_none) ==
    IF e.name \notin DOMAIN params THEN "unknown_name"
    ELSE IF e.value = None /\ allow_none THEN "none"
    ELSE IF ~is_valid_type(params[e.name], e.value) THEN "invalid_value"
    ELSE "none"

check_types(params, pcs, pz, allow_none, raise_error) ==
    IF Len(pz) # Cardinality(DOMAIN params)
    THEN Fails(raise_error, "cardinality", 0)
    ELSE LET bad == {i \in DOMAIN pz : TypeError(params, pz[i], allow_none) # "none"}
         IN  IF bad # {}
             THEN Fails(raise_error, TypeError(params, pz[Min(bad)], allow_none), 0)
             ELSE [ret |-> "True", err |-> "none", checks |-> 0]

CheckMembership ==
    /\ last.op = "input"
    /\ last' = QueryCall("check_membership", last.pz, last.raise_error, last.allow_none,
                         check_membership(parameters, parameter_constraints,
                                          last.pz, last.raise_error))
    /\ UNCHANGED <<constructed, parameters, parameter_constraints, clone, hss, caller, walk>>

CheckTypes ==
    /\ last.op = "input"
    /\ last' = QueryCall("check_types", last.pz, last.raise_error, last.allow_none,
                         check_types(parameters, parameter_constraints,
                                     last.pz, last.allow_none, last.raise_error))
    /\ UNCHANGED <<constructed, parameters, parameter_constraints, clone, hss, caller, walk>>

(***************************************************************************)
(* Arms.  An Arm is a parameters dict (name -> value) and an optional      *)
(* name; NoName stands for an Arm without a name.                          *)
(***************************************************************************)
NoName == "<None>"
ArmNames == {"arm_0", NoName}

\* The decimal string of n, and a string that is no number.
StrNum(n) == [t |-> "str", v |-> n]
NonNumeric == [t |-> "str", v |-> -1]
CastError == [t |-> "error", v |-> 0]

ArmValues ==
    {IntVal(n) : n \in 0..MaxVal} \cup {StrNum(n) : n \in 0..MaxVal}
        \cup {NonNumeric, None}

ArmParameterizations ==
    {pz \in SeqsUpTo({Entry(n, val) : n \in Names, val \in ArmValues}, 2) :
        \A i, j \in DOMAIN pz : pz[i].name = pz[j].name => i = j}

\* The dict a parameterization denotes.
ArmDict(pz) ==
    [n \in {pz[i].name : i \in DOMAIN pz} |->
        pz[CHOOSE i \in DOMAIN pz : pz[i].name = n].value]

\* Variant: the string conversion quotes its argument (repr for str).
castRepr(p, val) ==
    IF val = None THEN None
    ELSE IF p.parameter_type = "INT"
    THEN IF val.t = "int" THEN val
         ELSE IF val.v >= 0 THEN IntVal(val.v)
         ELSE CastError
    ELSE [t |-> "str", v |-> val.v + 100]

\* Parameter.cast: None stays None, otherwise python_type(value): int(value)
\* for an INT parameter (a string that is no number raises), str(value) for
\* a STRING parameter.
cast(p, val) ==
    IF val = None THEN None
    ELSE IF p.parameter_type = "INT"
    THEN IF val.t = "int" THEN val
         ELSE IF val.v >= 0 THEN IntVal(val.v)
         ELSE CastError
    ELSE StrNum(val.v)

\* Variant: entries whose name is not in the space are left out.
cast_armKnownOnly(params, d, name) ==
    LET known == DOMAIN d \cap DOMAIN params
        new_parameters == [n \in known |-> cast(params[n], d[n])]
    IN  IF \E n \in known : new_parameters[n] = CastError
        THEN [ok |-> FALSE, err |-> "cast_error", out |-> <<>>, out_name |-> NoName]
        ELSE [ok |-> TRUE, err |-> "none", out |-> new_parameters, out_name |-> name]

\* SearchSpace.cast_arm on an arm with parameters d and the given name.
cast_arm(params, d, name) ==
    LET new_parameters ==
            [n \in DOMAIN d |->
                IF n \notin DOMAIN params THEN d[n] ELSE cast(params[n], d[n])]
    IN  IF \E n \in DOMAIN d : new_parameters[n] = CastError
        THEN [ok |-> FALSE, err |-> "cast_error", out |-> <<>>, out_name |-> NoName]
        ELSE [ok |-> TRUE, err |-> "none", out |-> new_parameters, out_name |-> name]

\* Variant: a supplied None is validated like any other value.
construct_armValidatesNone(params, has_params, pz, name) ==
    LET final_parameters == [k \in DOMAIN params |-> None]
    IN  IF ~has_params
        THEN [ok |-> TRUE, err |-> "none", out |-> final_parameters, out_name |-> name]
        ELSE LET bad == {i \in DOMAIN pz :
                            \/ pz[i].name \notin DOMAIN params
                            \/ ~validate(params[pz[i].name], pz[i].value)}
             IN  IF bad # {}
                 THEN [ok |-> FALSE, err |-> "invalid", out |-> <<>>, out_name |-> NoName]
                 ELSE [ok |-> TRUE, err |-> "none",
                       out |-> [k \in DOMAIN params |->
                                  IF k \in DOMAIN ArmDict(pz) THEN ArmDict(pz)[k] ELSE None],
                       out_name |-> name]

\* SearchSpace.construct_arm(parameters, name); has_params is FALSE for
\* parameters=None.
construct_arm(params, has_params, pz, name) ==
    LET final_parameters == [k \in DOMAIN params |-> None]
    IN  IF ~has_params
        THEN [ok |-> TRUE, err |-> "none", out |-> final_parameters, out_name |-> name]
        ELSE LET bad == {i \in DOMAIN pz :
                            \/ pz[i].name \notin DOMAIN params
                            \/ /\ pz[i].value # None
                               /\ ~validate(params[pz[i].name], pz[i].value)}
             IN  IF bad # {}
                 THEN [ok |-> FALSE,
                       err |-> IF pz[Min(bad)].name \notin DOMAIN params
                               THEN "unknown_name" ELSE "invalid_value",
                       out |-> <<>>, out_name |-> NoName]
                 ELSE [ok |-> TRUE, err |-> "none",
                       out |-> [k \in DOMAIN params |->
                                  IF k \in DOMAIN ArmDict(pz) THEN ArmDict(pz)[k] ELSE None],
                       out_name |-> name]

\* Variant: the out-of-design arm has an empty parameters dict.
out_of_design_armEmpty(params) ==
    [ok |-> TRUE, err |-> "none", out |-> <<>>, out_name |-> NoName]

\* SearchSpace.out_of_design_arm()
out_of_design_arm(params) == construct_arm(params, FALSE, <<>>, NoName)

CastArm ==
    /\ last.op = "input"
    /\ last' = ArmCall("cast_arm", last.pz, TRUE, last.arm_name,
                       cast_arm(parameters, ArmDict(last.pz), last.arm_name))
    /\ UNCHANGED <<constructed, parameters, parameter_constraints, clone, hss, caller, walk>>

ConstructArm ==
    /\ last.op = "input"
    /\ last' = ArmCall("construct_arm", last.pz, last.has_params, last.arm_name,
                       construct_arm(parameters, last.has_params, last.pz, last.arm_name))
    /\ UNCHANGED <<constructed, parameters, parameter_constraints, clone, hss, caller, walk>>

\* construct_arm() with no arguments.
ConstructArmNoArgs ==
    /\ last' = ArmCall("construct_arm", <<>>, FALSE, NoName,
                       construct_arm(parameters, FALSE, <<>>, NoName))
    /\ UNCHANGED <<constructed, parameters, parameter_constraints, clone, hss, caller, walk>>

OutOfDesignArm ==
    /\ last' = ArmCall("out_of_design_arm", <<>>, FALSE, NoName,
                       out_of_design_arm(parameters))
    /\ UNCHANGED <<constructed, parameters, parameter_constraints, clone, hss, caller, walk>>

(***************************************************************************)
(* clone().  The clone is a second space; shares_dict, shares_list and     *)
(* shares_constraints record which of its containers and constraint        *)
(* objects are the very objects of the space it was cloned from.  The      *)
(* mutators called on either space get argument objects of their own.      *)
(***************************************************************************)
\* Parameter.clone(): a new object with the same attributes.
ParamClone(p) == [p EXCEPT !.copy = p.copy + 2]

\* ParameterConstraint.clone(): a new constraint over clones of the
\* Parameters it references.
ConstraintClone(c) ==
    [c EXCEPT !.parameters =
        [i \in DOMAIN c.parameters |->
            [c.parameters[i] EXCEPT !.copy = c.parameters[i].copy + 4]]]

\* Variant: the constructor is handed the space's own Parameters and its own
\* constraint list.
cloneShallow(params, pcs) ==
    LET r == SetOutcome(params, <<>>, pcs)
    IN  [exists |-> IF r.ok THEN "yes" ELSE "failed",
         parameters |-> IF r.ok THEN params ELSE NoParams,
         parameter_constraints |-> IF r.ok THEN r.pcs ELSE <<>>,
         shares_dict |-> FALSE,
         shares_list |-> r.ok /\ pcs # <<>>,
         shares_constraints |-> IF r.ok THEN DOMAIN pcs ELSE {}]

\* SearchSpace.clone(): the constructor on clones of the parameters (their
\* names are distinct, being dict keys) and a new list of clones of the
\* constraints; the constructor builds a new dict and keeps the new list.
clone_(params, pcs) ==
    LET ps == [n \in DOMAIN params |-> ParamClone(params[n])]
        cs == [i \in DOMAIN pcs |-> ConstraintClone(pcs[i])]
        r  == SetOutcome(ps, <<>>, cs)
    IN  [exists |-> IF r.ok THEN "yes" ELSE "failed",
         parameters |-> IF r.ok THEN ps ELSE NoParams,
         parameter_constraints |-> IF r.ok THEN r.pcs ELSE <<>>,
         shares_dict |-> FALSE,
         shares_list |-> FALSE,
         shares_constraints |-> {}]

\* A mutator call on the clone.
CloneCall(op, ok, err, ps, cs_in, cs_out) ==
    [Call(op, ok, err, ps, cs_in, cs_out) EXCEPT !.target = "clone"]

\* c = s.clone()
Clone ==
    /\ clone.exists = "no"
    /\ clone' = clone_(parameters, parameter_constraints)
    /\ last' = Call("clone", clone'.exists = "yes",
                    IF clone'.exists = "yes" THEN "none" ELSE "invalid_constraints",
                    <<>>, <<>>, <<>>)
    /\ UNCHANGED <<constructed, parameters, parameter_constraints, hss, caller, walk>>

\* c.add_parameter(p)
CloneAddParameter(p) ==
    /\ IF p.name \in DOMAIN clone.parameters
       THEN /\ last' = CloneCall("add_parameter", FALSE, "exists", <<p>>, <<>>, <<>>)
            /\ UNCHANGED clone
       ELSE /\ clone' = [clone EXCEPT !.parameters =
                            [n \in DOMAIN clone.parameters \cup {p.name} |->
                                IF n = p.name THEN p ELSE clone.parameters[n]]]
            /\ last' = CloneCall("add_parameter", TRUE, "none", <<p>>, <<>>, <<>>)
    /\ UNCHANGED <<constructed, parameters, parameter_constraints, hss, caller, walk>>

\* c.update_parameter(p)
CloneUpdateParameter(p) ==
    /\ IF p.name \notin DOMAIN clone.parameters
       THEN /\ last' = CloneCall("update_parameter", FALSE, "absent", <<p>>, <<>>, <<>>)
            /\ UNCHANGED clone
       ELSE IF clone.parameters[p.name].parameter_type # p.parameter_type
       THEN /\ last' = CloneCall("update_parameter", FALSE, "type_mismatch", <<p>>, <<>>, <<>>)
            /\ UNCHANGED clone
       ELSE /\ clone' = [clone EXCEPT !.parameters[p.name] = p]
            /\ last' = CloneCall("update_parameter", TRUE, "none", <<p>>, <<>>, <<>>)
    /\ UNCHANGED <<constructed, parameters, parameter_constraints, hss, caller, walk>>

\* c.set_parameter_constraints(cs): the clone's list becomes the caller's.
CloneSetParameterConstraints(cs) ==
    /\ LET r == SetOutcome(clone.parameters, clone.parameter_constraints, cs)
       IN  /\ clone' = IF r.ok
                       THEN [clone EXCEPT !.parameter_constraints = r.pcs,
                                          !.shares_list = FALSE,
                                          !.shares_constraints = {}]
                       ELSE clone
           /\ last' = CloneCall("set_parameter_constraints", r.ok, r.err, <<>>, cs, r.cs_out)
    /\ UNCHANGED <<constructed, parameters, parameter_constraints, hss, caller, walk>>

\* c.add_parameter_constraints(cs)
CloneAddParameterConstraints(cs) ==
    /\ LET r == AddOutcome(clone.parameters, clone.parameter_constraints, cs)
       IN  /\ clone' = [clone EXCEPT !.parameter_constraints = r.pcs]
           /\ last' = CloneCall("add_parameter_constraints", r.ok, r.err, <<>>, cs, r.cs_out)
    /\ UNCHANGED <<constructed, parameters, parameter_constraints, hss, caller, walk>>

(***************************************************************************)
(* HierarchicalSearchSpace.  A parameter's dependents are a sequence, one  *)
(* entry per trigger value in dict order, of lists of parameter names.     *)
(***************************************************************************)
HNames == {"A", "B", "C", "D"}

HParam(n, deps) ==
    [name |-> n, parameter_type |-> "STRING", upper |-> 0, copy |-> 1,
     dependents |-> deps]

\* Parameter.is_hierarchical: the parameter has a dependents mapping.
is_hierarchical(p) == p.dependents # <<>>

\* The dependents a parameter may be given: none, one trigger value with up
\* to two names (or no name), two trigger values with one name each, or one
\* trigger value without names and one with a name.
Dependents ==
    {<<>>} \cup {<<l>> : l \in SeqsUpTo(HNames, 2)}
        \cup {<< <<x>>, <<y>> >> : x \in HNames, y \in HNames}
        \cup {<< <<>>, <<x>> >> : x \in HNames}

\* for deps in dependents.values() for param_name in deps
RECURSIVE Flatten(_)
Flatten(ds) == IF ds = <<>> THEN <<>> ELSE Head(ds) \o Flatten(Tail(ds))

\* The names a parameter lists under any of its values.
Listed(p) ==
    UNION {{p.dependents[i][k] : k \in DOMAIN p.dependents[i]} :
              i \in DOMAIN p.dependents}

Ok(names) == [err |-> "none", what |-> "none", names |-> names]
Raise(err, what, names) == [err |-> err, what |-> what, names |-> names]

\* Variant: with several candidates one of them is taken as the root.
find_rootAny(params) ==
    LET dependent_parameter_names ==
            UNION {Listed(params[n]) : n \in {m \in DOMAIN params : is_hierarchical(params[m])}}
        root_parameters == DOMAIN params \ dependent_parameter_names
    IN  IF root_parameters = {}
        THEN [err |-> "NotImplementedError", what |-> "no_unique_root",
              names |-> dependent_parameter_names \cup root_parameters,
              root |-> "none"]
        ELSE [err |-> "none", what |-> "none", names |-> {},
              root |-> CHOOSE r \in root_parameters : TRUE]

\* _find_root: the error message carries the dependent names and the
\* candidates.
find_root(params) ==
    LET dependent_parameter_names ==
            UNION {Listed(params[n]) : n \in {m \in DOMAIN params : is_hierarchical(params[m])}}
        root_parameters == DOMAIN params \ dependent_parameter_names
    IN  IF Cardinality(root_parameters) # 1
        THEN [err |-> "NotImplementedError", what |-> "no_unique_root",
              names |-> dependent_parameter_names \cup root_parameters,
              root |-> "none"]
        ELSE [err |-> "none", what |-> "none", names |-> {},
              root |-> CHOOSE r \in root_parameters : TRUE]

\* Variant: the error does not carry the shared names.
disjoint_unionNoNames(set1, set2) ==
    IF set1 \cap set2 # {}
    THEN Raise("UserInputError", "shared_subtrees", {})
    ELSE Ok(set1 \cup set2)

\* Variant: the union is taken without the disjointness test.
disjoint_unionUnchecked(set1, set2) == Ok(set1 \cup set2)

\* _disjoint_union
disjoint_union(set1, set2) ==
    IF set1 \cap set2 # {}
    THEN Raise("UserInputError", "shared_subtrees", set1 \cap set2)
    ELSE Ok(set1 \cup set2)

(***************************************************************************)
(* _check_subtree.  depth counts the frames still available: a path longer *)
(* than the number of parameters repeats a name, the recursion then never  *)
(* ends by itself and Python stops it with RecursionError.  A StopIteration *)
(* raised by next() in a call made from the caller's generator expression  *)
(* leaves that generator as RuntimeError.                                  *)
(***************************************************************************)
RECURSIVE check_subtree(_, _, _, _)
RECURSIVE subtree(_, _, _)
RECURSIVE reduce_subtrees(_, _, _, _, _)

check_subtree(params, name, depth, nested) ==
    IF depth = 0 THEN Raise("RecursionError", "recursion", {})
    ELSE IF ~is_hierarchical(params[name]) THEN Ok({name})
    ELSE LET kids == Flatten(params[name].dependents)
         IN  IF kids = <<>>
             THEN Raise(IF nested THEN "RuntimeError" ELSE "StopIteration",
                        "empty_dependents", {})
             ELSE LET first == subtree(params, kids[1], depth)
                  IN  IF first.err # "none" THEN first
                      ELSE LET r == reduce_subtrees(params, kids, 2, first.names, depth)
                           IN  IF r.err # "none" THEN r
                               ELSE Ok({name} \cup r.names)

\* One element of the generator: self[param_name], then the recursive call.
subtree(params, kid, depth) ==
    IF kid \notin DOMAIN params
    THEN Raise("ValueError", "unknown_parameter", {kid})
    ELSE check_subtree(params, kid, depth - 1, TRUE)

\* reduce(_disjoint_union, rest of the generator, acc)
reduce_subtrees(params, kids, i, acc, depth) ==
    IF i > Len(kids) THEN Ok(acc)
    ELSE LET s == subtree(params, kids[i], depth)
         IN  IF s.err # "none" THEN s
             ELSE LET u == disjoint_union(acc, s.names)
                  IN  IF u.err # "none" THEN u
                      ELSE reduce_subtrees(params, kids, i + 1, u.names, depth)

\* Variant: the reachability test is left out.
validate_hierarchical_structureNoReach(params, root) ==
    check_subtree(params, root, Cardinality(DOMAIN params), FALSE)

\* _validate_hierarchical_structure
validate_hierarchical_structure(params, root) ==
    LET visited == check_subtree(params, root, Cardinality(DOMAIN params), FALSE)
    IN  IF visited.err # "none" THEN visited
        ELSE IF DOMAIN params \ visited.names # {}
        THEN Raise("UserInputError", "unreachable", DOMAIN params \ visited.names)
        ELSE visited

\* The hierarchical part of HierarchicalSearchSpace.__init__: _root and
\* _all_parameter_names, and the error raised if any.
hierarchical_init(hp) ==
    LET r == find_root(hp)
    IN  IF r.err # "none"
        THEN [state |-> "failed", root |-> "none", all_parameter_names |-> DOMAIN hp,
              err |-> r.err, what |-> r.what, err_names |-> r.names]
        ELSE LET v == validate_hierarchical_structure(hp, r.root)
             IN  [state |-> IF v.err = "none" THEN "yes" ELSE "failed",
                  root |-> r.root, all_parameter_names |-> DOMAIN hp,
                  err |-> v.err, what |-> v.what,
                  err_names |-> IF v.err = "none" THEN {} ELSE v.names]

\* HierarchicalSearchSpace.__init__ on parameters with distinct names and no
\* constraints.  parameters keeps the dict the base constructor built also
\* when the hierarchical checks fail.
HierarchicalSearchSpace(hp) ==
    /\ hss' = hierarchical_init(hp)
    /\ constructed' = IF hss'.state = "yes" THEN "yes" ELSE "failed"
    /\ parameters' = hp
    /\ parameter_constraints' = <<>>
    /\ last' = Call("HierarchicalSearchSpace", hss'.state = "yes", hss'.err, <<>>, <<>>, <<>>)
    /\ UNCHANGED <<clone, caller, walk>>

\* Variant: cast_arm is inherited from SearchSpace.
hss_cast_armInherited(params, d, name) == cast_arm(params, d, name)

\* HierarchicalSearchSpace.cast_arm
hss_cast_arm(params, d, name) ==
    [ok |-> FALSE, err |-> "NotImplementedError", out |-> <<>>, out_name |-> NoName]

\* The arms handed to HierarchicalSearchSpace.cast_arm.
HArms ==
    SeqsUpTo({Entry(n, val) : n \in {"A", "Z"}, val \in {IntVal(0), StrNum(0), None}}, 1)

Flatten_ ==
    /\ last' = Call("flatten", FALSE, "NotImplementedError", <<>>, <<>>, <<>>)
    /\ UNCHANGED <<constructed, parameters, parameter_constraints, clone, hss, caller, walk>>

HssCastArm(pz, name) ==
    /\ last' = ArmCall("HierarchicalSearchSpace.cast_arm", pz, TRUE, name,
                       hss_cast_arm(parameters, ArmDict(pz), name))
    /\ UNCHANGED <<constructed, parameters, parameter_constraints, clone, hss, caller, walk>>

Next ==
    \/ /\ constructed = "no"
       /\ \E ps \in ParamLists : \E cs \in ConstraintLists : SearchSpace(ps, cs)
    \/ /\ constructed = "yes"
       /\ \E p \in ParamPool : add_parameter(p)
    \/ /\ constructed = "yes"
       /\ \E p \in ParamPool : update_parameter(p)
    \/ /\ constructed = "yes"
       /\ \E cs \in ConstraintLists : set_parameter_constraints(cs)
    \/ /\ constructed = "yes"
       /\ \E cs \in {c \in ConstraintLists :
                        Len(parameter_constraints) + Len(c) <= MaxConstraints} :
             add_parameter_constraints(cs)
    \/ /\ constructed = "yes"
       /\ ConstructArmNoArgs
    \/ /\ constructed = "yes"
       /\ OutOfDesignArm

Spec == Init /\ [][Next]_vars

\* The queries are pure functions of the space and their arguments: the
\* space is any space the constructor returns, the arguments are drawn from
\* the bounded sets.
InitQuery ==
    \E ps \in ParamLists : \E cs \in ConstraintLists :
        /\ ~HasDuplicateNames(ps)
        /\ SetOutcome(DictOf(ps), <<>>, cs).ok
        /\ constructed = "yes"
        /\ clone = NoClone
        /\ hss = NoHss
        /\ parameters = DictOf(ps)
        /\ parameter_constraints = SetOutcome(DictOf(ps), <<>>, cs).pcs
        /\ caller = Handed(NoCaller, SetOutcome(DictOf(ps), <<>>, cs).pcs, cs # <<>>)
        /\ walk = NoWalk
        /\ \E pz \in Parameterizations : \E re \in BOOLEAN : \E an \in BOOLEAN :
              last = QueryCall("input", pz, re, an,
                               [ret |-> "none", err |-> "none", checks |-> 0])

NextQuery == CheckMembership \/ CheckTypes

SpecQuery == InitQuery /\ [][NextQuery]_vars

\* The arm operations on any space the constructor returns.
InitArm ==
    \E ps \in ParamLists : \E cs \in ConstraintLists :
        /\ ~HasDuplicateNames(ps)
        /\ SetOutcome(DictOf(ps), <<>>, cs).ok
        /\ constructed = "yes"
        /\ clone = NoClone
        /\ hss = NoHss
        /\ parameters = DictOf(ps)
        /\ parameter_constraints = SetOutcome(DictOf(ps), <<>>, cs).pcs
        /\ caller = Handed(NoCaller, SetOutcome(DictOf(ps), <<>>, cs).pcs, cs # <<>>)
        /\ walk = NoWalk
        /\ \E pz \in ArmParameterizations : \E hp \in BOOLEAN : \E nm \in ArmNames :
              /\ (~hp => pz = <<>>)
              /\ last = ArmCall("input", pz, hp, nm,
                                [ok |-> TRUE, err |-> "none", out |-> <<>>,
                                 out_name |-> NoName])

NextArm == CastArm \/ ConstructArm

SpecArm == InitArm /\ [][NextArm]_vars

\* clone() on any space the constructor returns, then one mutator call on
\* the clone or on the space it was cloned from.
InitClone ==
    \E ps \in ParamLists : \E cs \in ConstraintLists :
        /\ ~HasDuplicateNames(ps)
        /\ SetOutcome(DictOf(ps), <<>>, cs).ok
        /\ constructed = "yes"
        /\ clone = NoClone
        /\ hss = NoHss
        /\ parameters = DictOf(ps)
        /\ parameter_constraints = SetOutcome(DictOf(ps), <<>>, cs).pcs
        /\ caller = Handed(NoCaller, SetOutcome(DictOf(ps), <<>>, cs).pcs, cs # <<>>)
        /\ walk = NoWalk
        /\ last = Call("none", TRUE, "none", <<>>, <<>>, <<>>)

NextClone ==
    \/ Clone
    \/ /\ last.op = "clone" /\ last.ok
       /\ \E p \in ParamPool : CloneAddParameter(p)
    \/ /\ last.op = "clone" /\ last.ok
       /\ \E p \in ParamPool : CloneUpdateParameter(p)
    \/ /\ last.op = "clone" /\ last.ok
       /\ \E cs \in ConstraintLists : CloneSetParameterConstraints(cs)
    \/ /\ last.op = "clone" /\ last.ok
       /\ \E cs \in {c \in ConstraintLists :
                        Len(clone.parameter_constraints) + Len(c) <= MaxConstraints} :
             CloneAddParameterConstraints(cs)
    \/ /\ last.op = "clone" /\ last.ok
       /\ \E p \in ParamPool : add_parameter(p)
    \/ /\ last.op = "clone" /\ last.ok
       /\ \E p \in ParamPool : update_parameter(p)
    \/ /\ last.op = "clone" /\ last.ok
       /\ \E cs \in ConstraintLists : set_parameter_constraints(cs)
    \/ /\ last.op = "clone" /\ last.ok
       /\ \E cs \in {c \in ConstraintLists :
                        Len(parameter_constraints) + Len(c) <= MaxConstraints} :
             add_parameter_constraints(cs)

SpecClone == InitClone /\ [][NextClone]_vars

\* The parameter lists handed to HierarchicalSearchSpace: any of A and B
\* with any dependents, C left out or listing at most one name, and D left
\* out or without dependents (the names being interchangeable, C stands for
\* the parameter that lists the fewest names).
FewDependents == {d \in Dependents : Len(Flatten(d)) <= 1}

HInputs(f, g) ==
    [n \in DOMAIN f \cup DOMAIN g |->
        HParam(n, IF n \in DOMAIN f THEN f[n] ELSE g[n])]

NextHier ==
    \/ /\ hss.state = "none"
       /\ \E S \in SUBSET {"A", "B"} : \E f \in [S -> Dependents] :
             \E T \in SUBSET {"C", "D"} :
                \E g \in {h \in [T -> FewDependents] : "D" \in T => h["D"] = <<>>} :
                    HierarchicalSearchSpace(HInputs(f, g))
    \/ /\ hss.state = "yes"
       /\ Flatten_
    \/ /\ hss.state = "yes"
       /\ \E pz \in HArms : \E nm \in ArmNames : HssCastArm(pz, nm)

SpecHier == Init /\ [][NextHier]_vars

(***************************************************************************)
(* add_parameter and update_parameter on a HierarchicalSearchSpace.  The   *)
(* class overrides neither, so the calls run SearchSpace's code and touch  *)
(* only _parameters; _root and _all_parameter_names keep the values        *)
(* __init__ gave them.                                                     *)
(***************************************************************************)
\* The parameters handed to the two calls: names "A", "B", "C" as a leaf or
\* with one dependent, and "A" once more with another parameter_type.
HMutPool ==
    {HParam(n, d) : n \in {"A", "B", "C"},
                    d \in {<<>>} \cup {<< <<x>> >> : x \in {"A", "B", "C"}}}
        \cup {[HParam("A", <<>>) EXCEPT !.parameter_type = "INT"]}

\* Variant: the hierarchical checks of __init__ are run again on the new
\* parameters.
HssAddParameterRevalidating(p) ==
    /\ IF p.name \in DOMAIN parameters
       THEN /\ last' = Call("add_parameter", FALSE, "exists", <<p>>, <<>>, <<>>)
            /\ UNCHANGED <<parameters, hss>>
       ELSE /\ parameters' = [n \in DOMAIN parameters \cup {p.name} |->
                                 IF n = p.name THEN p ELSE parameters[n]]
            /\ hss' = hierarchical_init(parameters')
            /\ last' = Call("add_parameter", TRUE, "none", <<p>>, <<>>, <<>>)
    /\ UNCHANGED <<constructed, parameter_constraints, clone, caller, walk>>

\* HierarchicalSearchSpace.add_parameter (inherited)
HssAddParameter(p) == add_parameter(p)

\* HierarchicalSearchSpace.update_parameter (inherited)
HssUpdateParameter(p) == update_parameter(p)

NextHierMut ==
    \/ /\ hss.state = "none"
       /\ \E S \in SUBSET {"A", "B"} : \E f \in [S -> FewDependents] :
             HierarchicalSearchSpace(HInputs(f, <<>>))
    \/ /\ hss.state = "yes"
       /\ \E p \in HMutPool : HssAddParameter(p)
    \/ /\ hss.state = "yes"
       /\ \E p \in HMutPool : HssUpdateParameter(p)

SpecHierMut == Init /\ [][NextHierMut]_vars

(***************************************************************************)
(* The caller's list.  set_parameter_constraints keeps the list object it  *)
(* is given, add_parameter_constraints extends the list object the space   *)
(* holds: a list handed to the space and again to a second space is one    *)
(* object seen from three places.                                          *)
(***************************************************************************)
\* t = SearchSpace(list(s.parameters.values()), cs), cs being the list the
\* caller handed to s before.  The constructor rebinds the constraints of cs
\* in place and keeps cs itself unless it is empty.
SecondSearchSpace ==
    /\ caller.second = "no"
    /\ LET r == SetOutcome(parameters, <<>>, caller.list)
       IN  /\ last' = [Call("init", r.ok, r.err, <<>>, caller.list, r.cs_out)
                          EXCEPT !.target = "second"]
           /\ IF r.ok
              THEN /\ caller' = [caller EXCEPT !.list = r.pcs,
                                               !.second = "yes",
                                               !.second_pcs = r.pcs,
                                               !.second_held = caller.list # <<>>]
                   /\ parameter_constraints' =
                         IF caller.held THEN r.pcs ELSE parameter_constraints
              ELSE /\ caller' = [caller EXCEPT !.second = "failed"]
                   /\ UNCHANGED parameter_constraints
    /\ UNCHANGED <<constructed, parameters, clone, hss, walk>>

NextAlias ==
    \/ /\ constructed = "no"
       /\ \E ps \in ParamLists : \E cs \in ConstraintLists : SearchSpace(ps, cs)
    \/ /\ constructed = "yes"
       /\ caller.second = "no"
       /\ \E cs \in ConstraintLists : set_parameter_constraints(cs)
    \/ /\ constructed = "yes"
       /\ SecondSearchSpace
    \/ /\ constructed = "yes"
       /\ \E cs \in {c \in ConstraintLists :
                        Len(parameter_constraints) + Len(c) <= MaxConstraints} :
             add_parameter_constraints(cs)

SpecAlias == Init /\ [][NextAlias]_vars

(***************************************************************************)
(* HierarchicalSearchSpace.__init__ step by step: the base constructor,    *)
(* _all_parameter_names and _find_root in one step, then one step for each *)
(* call of, return from and exception in _check_subtree.  A frame holds    *)
(* the parameter visited, the names its generator expression runs over,    *)
(* the position of the generator, and the set reduce has accumulated       *)
(* (seeded by next()).                                                     *)
(***************************************************************************)
Frame(params, name) ==
    [name |-> name, kids |-> Flatten(params[name].dependents), i |-> 1,
     acc |-> {}, seeded |-> FALSE]

\* _root and _all_parameter_names, and the outcome v of
\* _validate_hierarchical_structure.
Validated(params, root, v) ==
    [state |-> IF v.err = "none" THEN "yes" ELSE "failed",
     root |-> root, all_parameter_names |-> DOMAIN params,
     err |-> v.err, what |-> v.what,
     err_names |-> IF v.err = "none" THEN {} ELSE v.names]

\* An exception leaves every frame: no frame of the walk catches it.
Raised(e) == [state |-> "done", stack |-> <<>>, result |-> e]

\* _check_subtree returns visited to the frame below: to next() or reduce of
\* its caller, or, from the first frame, to _validate_hierarchical_structure
\* and its reachability test.
Returned(params, below, visited) ==
    IF below = <<>>
    THEN Raised(IF DOMAIN params \ visited # {}
                THEN Raise("UserInputError", "unreachable", DOMAIN params \ visited)
                ELSE Ok(visited))
    ELSE LET parent == below[Len(below)]
             under  == SubSeq(below, 1, Len(below) - 1)
         IN  IF ~parent.seeded
             THEN [state |-> "running",
                   stack |-> Append(under, [parent EXCEPT !.acc = visited,
                                                          !.seeded = TRUE])]
             ELSE LET u == disjoint_union(parent.acc, visited)
                  IN  IF u.err # "none" THEN Raised(u)
                      ELSE [state |-> "running",
                            stack |-> Append(under, [parent EXCEPT !.acc = u.names])]

\* Variant: at the recursion limit the call is neither made nor refused.
check_subtree_stepUnlimited(params, w) ==
    LET top   == w.stack[Len(w.stack)]
        below == SubSeq(w.stack, 1, Len(w.stack) - 1)
    IN  IF ~is_hierarchical(params[top.name])
        THEN Returned(params, below, {top.name})
        ELSE IF top.i > Len(top.kids)
        THEN IF ~top.seeded
             THEN Raised(Raise(IF below # <<>> THEN "RuntimeError" ELSE "StopIteration",
                               "empty_dependents", {}))
             ELSE Returned(params, below, {top.name} \cup top.acc)
        ELSE IF top.kids[top.i] \notin DOMAIN params
        THEN Raised(Raise("ValueError", "unknown_parameter", {top.kids[top.i]}))
        ELSE IF Len(w.stack) >= RecursionLimit
        THEN w
        ELSE [state |-> "running",
              stack |-> Append(Append(below, [top EXCEPT !.i = @ + 1]),
                               Frame(params, top.kids[top.i]))]

\* One step of the frame on top of the stack.
check_subtree_step(params, w) ==
    LET top   == w.stack[Len(w.stack)]
        below == SubSeq(w.stack, 1, Len(w.stack) - 1)
    IN  IF ~is_hierarchical(params[top.name])
        THEN Returned(params, below, {top.name})
        ELSE IF top.i > Len(top.kids)
        THEN IF ~top.seeded
             THEN Raised(Raise(IF below # <<>> THEN "RuntimeError" ELSE "StopIteration",
                               "empty_dependents", {}))
             ELSE Returned(params, below, {top.name} \cup top.acc)
        ELSE IF top.kids[top.i] \notin DOMAIN params
        THEN Raised(Raise("ValueError", "unknown_parameter", {top.kids[top.i]}))
        ELSE IF Len(w.stack) >= RecursionLimit
        THEN Raised(Raise("RecursionError", "recursion", {}))
        ELSE [state |-> "running",
              stack |-> Append(Append(below, [top EXCEPT !.i = @ + 1]),
                               Frame(params, top.kids[top.i]))]

\* The call enters __init__: up to the first call of _check_subtree.
WalkStart(hp) ==
    /\ walk.state = "idle"
    /\ parameters' = hp
    /\ parameter_constraints' = <<>>
    /\ LET r == find_root(hp)
       IN  IF r.err # "none"
           THEN /\ walk' = Raised(r)
                /\ hss' = hierarchical_init(hp)
                /\ constructed' = "failed"
                /\ last' = Call("HierarchicalSearchSpace", FALSE, r.err, <<>>, <<>>, <<>>)
           ELSE /\ walk' = [state |-> "running", stack |-> <<Frame(hp, r.root)>>]
                /\ hss' = [NoHss EXCEPT !.state = "running", !.root = r.root,
                                        !.all_parameter_names = DOMAIN hp]
                /\ UNCHANGED <<constructed, last>>
    /\ UNCHANGED <<clone, caller>>

\* The interpreter runs the call one step further; __init__ returns or
\* raises when the walk is done.
WalkStep ==
    /\ walk.state = "running"
    /\ walk' = check_subtree_step(parameters, walk)
    /\ IF walk'.state = "done"
       THEN /\ hss' = Validated(parameters, hss.root, walk'.result)
            /\ constructed' = IF hss'.state = "yes" THEN "yes" ELSE "failed"
            /\ last' = Call("HierarchicalSearchSpace", hss'.state = "yes", hss'.err,
                            <<>>, <<>>, <<>>)
       ELSE UNCHANGED <<hss, constructed, last>>
    /\ UNCHANGED <<parameters, parameter_constraints, clone, caller>>

\* The dependents of the walked spaces: they list the names "A", "B", "C",
\* each of which may or may not be a parameter of the space.
WalkDependents == {d \in Dependents : Listed([dependents |-> d]) \subseteq {"A", "B", "C"}}

NextWalk ==
    \/ \E S \in SUBSET {"A"} : \E f \in [S -> WalkDependents] :
          \E T \in SUBSET {"B", "C"} :
             \E g \in [T -> WalkDependents \cap FewDependents] :
                WalkStart(HInputs(f, g))
    \/ WalkStep

SpecWalk == Init /\ [][NextWalk]_vars

\* The interpreter does not stop in the middle of a call.
SpecWalkFair == SpecWalk /\ WF_vars(WalkStep)

(***************************************************************************)
(* Properties.                                                             *)
(***************************************************************************)
SharesName(ps) == \E i, j \in DOMAIN ps : i # j /\ ps[i].name = ps[j].name

\* C1: construction from a parameter list with distinct names (and no
\* constraints) succeeds and the space has as many parameters as the list;
\* construction from a list in which two parameters share a name fails and
\* produces no SearchSpace.
C1_ConstructionUniqueNames ==
    last.op = "init" =>
        /\ last.ok <=> constructed = "yes"
        /\ SharesName(last.ps) => (~last.ok /\ constructed = "failed")
        /\ (~SharesName(last.ps) /\ last.cs_in = <<>>) => last.ok
        /\ last.ok => Cardinality(DOMAIN parameters) = Len(last.ps)

C1_Witness ==
    /\ last.op = "init"
    /\ last.ok
    /\ Len(last.ps) = 2
    /\ Cardinality(DOMAIN parameters) = 2

\* The four conditions of membership, stated on the space and the
\* parameterization.
SameCardinality(pz) == Len(pz) = Cardinality(DOMAIN parameters)
AllNamesKnown(pz) == \A i \in DOMAIN pz : pz[i].name \in DOMAIN parameters
AllValuesValid(pz) ==
    \A i \in DOMAIN pz :
        pz[i].name \in DOMAIN parameters => validate(parameters[pz[i].name], pz[i].value)
ValueOf(pz, n) == pz[CHOOSE i \in DOMAIN pz : pz[i].name = n].value
NumericSubset(pz) ==
    [n \in {m \in {pz[i].name : i \in DOMAIN pz} : is_numeric(parameters[m])} |->
        ValueOf(pz, n).v]
AllConstraintsHold(pz) ==
    \A i \in DOMAIN parameter_constraints :
        check(parameter_constraints[i], NumericSubset(pz))
IsMember(pz) ==
    /\ SameCardinality(pz)
    /\ AllNamesKnown(pz)
    /\ AllValuesValid(pz)
    /\ AllConstraintsHold(pz)

\* C2: check_membership(p) returns True exactly when p has as many entries
\* as the space has parameters, every name is a parameter, every value passes
\* validate and the numeric subset satisfies every constraint; replacing one
\* value of a member by a value that fails validate gives False.
C2_MembershipIffFourConditions ==
    (last.op = "check_membership" /\ ~last.raise_error) =>
        /\ last.ret \in {"True", "False"}
        /\ last.ret = "True" <=> IsMember(last.pz)
        /\ last.ret = "True" =>
              \A i \in DOMAIN last.pz : \A val \in Values :
                  ~validate(parameters[last.pz[i].name], val) =>
                      check_membership(parameters, parameter_constraints,
                                       [last.pz EXCEPT ![i].value = val],
                                       FALSE).ret = "False"

C2_Witness ==
    /\ last.op = "check_membership"
    /\ ~last.raise_error
    /\ last.ret = "True"
    /\ Len(last.pz) = 2
    /\ parameter_constraints # <<>>

\* The first failing condition, in the order of the code.
FirstBadEntry(pz) ==
    CHOOSE i \in DOMAIN pz :
        /\ ~(pz[i].name \in DOMAIN parameters
                /\ validate(parameters[pz[i].name], pz[i].value))
        /\ \A j \in 1..(i - 1) :
              /\ pz[j].name \in DOMAIN parameters
              /\ validate(parameters[pz[j].name], pz[j].value)
FirstFailure(pz) ==
    IF ~SameCardinality(pz) THEN "cardinality"
    ELSE IF ~(AllNamesKnown(pz) /\ AllValuesValid(pz))
    THEN IF pz[FirstBadEntry(pz)].name \notin DOMAIN parameters
         THEN "unknown_name" ELSE "invalid_value"
    ELSE IF ~AllConstraintsHold(pz) THEN "constraint"
    ELSE "none"

\* C3: with raise_error=True check_membership raises exactly when the
\* default mode returns False and returns True otherwise, never False; the
\* error is that of the first failing condition (cardinality, then per entry
\* unknown name or invalid value, then constraint), and no constraint is
\* evaluated once an earlier condition has failed.
C3_RaiseErrorMode ==
    (last.op = "check_membership" /\ last.raise_error) =>
        /\ last.ret \in {"True", "raised"}
        /\ last.ret = "raised" <=>
              check_membership(parameters, parameter_constraints, last.pz, FALSE).ret = "False"
        /\ last.ret = "raised" <=> ~IsMember(last.pz)
        /\ last.err = FirstFailure(last.pz)
        /\ last.err \in {"cardinality", "unknown_name", "invalid_value"} => last.checks = 0

C3_Witness ==
    /\ last.op = "check_membership"
    /\ last.raise_error
    /\ last.ret = "raised"
    /\ last.err = "invalid_value"
    /\ Len(last.pz) = 2
    /\ parameter_constraints # <<>>

TypesOk(pz, allow_none) ==
    /\ SameCardinality(pz)
    /\ AllNamesKnown(pz)
    /\ \A i \in DOMAIN pz :
          pz[i].name \in DOMAIN parameters =>
              \/ pz[i].value = None /\ allow_none
              \/ is_valid_type(parameters[pz[i].name], pz[i].value)

\* C4: check_types(p, allow_none) returns True exactly when p has as many
\* entries as the space has parameters, every name is a parameter and every
\* value is None with allow_none or passes is_valid_type; the result is the
\* same under every constraint list.
C4_CheckTypesIgnoresConstraints ==
    last.op = "check_types" =>
        /\ last.ret = "True" <=> TypesOk(last.pz, last.allow_none)
        /\ last.ret # "True" => last.ret = (IF last.raise_error THEN "raised" ELSE "False")
        /\ \A cs \in {c \in ConstraintLists :
                        validate_parameter_constraints(parameters, c) = "none"} :
              check_types(parameters, cs, last.pz, last.allow_none, last.raise_error).ret
                  = last.ret

\* A parameterization that passes check_types although a value is None and
\* a constraint of the space is violated.
C4_Witness ==
    /\ last.op = "check_types"
    /\ last.ret = "True"
    /\ last.allow_none
    /\ \E i \in DOMAIN last.pz : last.pz[i].value = None
    /\ parameter_constraints # <<>>
    /\ ~IsMember(last.pz)

RefsOf(c) == {c.parameters[i] : i \in DOMAIN c.parameters}

ConstraintAcceptable(c) ==
    IF c.kind = "attr"
    THEN c.constraint_dict \subseteq DOMAIN parameters
    ELSE \A p \in RefsOf(c) :
            /\ p.name \in DOMAIN parameters
            /\ ParamEq(p, parameters[p.name])

IsConstraintCall == last.op \in {"set_parameter_constraints", "add_parameter_constraints"}

\* C5: set_parameter_constraints and add_parameter_constraints fail when a
\* constraint names a parameter that is not in the space or an order/sum
\* constraint references a Parameter not equal to the space's Parameter of
\* that name, and succeed otherwise; an attribute-style constraint is
\* accepted whenever every name of its constraint_dict is in the space.
C5_ConstraintValidation ==
    IsConstraintCall =>
        /\ last.ok <=> \A i \in DOMAIN last.cs_in : ConstraintAcceptable(last.cs_in[i])
        /\ (\A i \in DOMAIN last.cs_in :
               /\ last.cs_in[i].kind = "attr"
               /\ last.cs_in[i].constraint_dict \subseteq DOMAIN parameters) => last.ok
        /\ last.err = "unknown_param" =>
              \E i \in DOMAIN last.cs_in :
                  \/ \E p \in RefsOf(last.cs_in[i]) : p.name \notin DOMAIN parameters
                  \/ ~(last.cs_in[i].constraint_dict \subseteq DOMAIN parameters)

C5_Witness ==
    /\ last.op = "add_parameter_constraints"
    /\ ~last.ok
    /\ last.err = "definition_mismatch"
    /\ Len(last.cs_in) = 2

\* C6: a failed set_parameter_constraints or add_parameter_constraints
\* leaves parameters and parameter_constraints as they were and has rebound
\* no Parameter reference of any constraint of its argument.
C6_FailureChangesNothing ==
    [][ (last'.op \in {"set_parameter_constraints", "add_parameter_constraints"}
            /\ ~last'.ok) =>
        /\ parameters' = parameters
        /\ parameter_constraints' = parameter_constraints
        /\ last'.cs_out = last'.cs_in ]_vars

\* A failed set_parameter_constraints whose first constraint is valid and
\* would have been rebound, and whose second constraint is rejected.
C6_Witness ==
    /\ last.op = "set_parameter_constraints"
    /\ ~last.ok
    /\ Len(last.cs_in) = 2
    /\ ConstraintAcceptable(last.cs_in[1])
    /\ last.cs_in[1].kind = "order"
    /\ Rebind(parameters, last.cs_in[1]) # last.cs_in[1]
    /\ parameter_constraints # <<>>

\* C7: every Parameter referenced by an order/sum constraint of
\* parameter_constraints is equal in name and attributes to the Parameter
\* stored under that name in parameters.
C7_ConstraintsMatchSpace ==
    constructed = "yes" =>
        \A i \in DOMAIN parameter_constraints :
            \A p \in RefsOf(parameter_constraints[i]) :
                /\ p.name \in DOMAIN parameters
                /\ ParamEq(p, parameters[p.name])

\* C8: after a successful set_parameter_constraints(cs) or
\* add_parameter_constraints(cs) every Parameter reference of a constraint
\* of cs is the space's own Parameter object of that name.
C8_ReferencesAreSpaceInstances ==
    (IsConstraintCall /\ last.ok) =>
        \A i \in DOMAIN last.cs_out :
            \A p \in RefsOf(last.cs_out[i]) :
                /\ p.name \in DOMAIN parameters
                /\ p = parameters[p.name]

\* C9: add_parameter(p) fails and changes nothing when p.name is in the
\* space; otherwise it adds the entry p.name -> p and leaves every other
\* parameter and the constraint list unchanged.
C9_AddParameter ==
    [][ last'.op = "add_parameter" =>
        LET p == last'.ps[1]
        IN  /\ parameter_constraints' = parameter_constraints
            /\ IF p.name \in DOMAIN parameters
               THEN ~last'.ok /\ parameters' = parameters
               ELSE /\ last'.ok
                    /\ DOMAIN parameters' = DOMAIN parameters \cup {p.name}
                    /\ parameters'[p.name] = p
                    /\ \A n \in DOMAIN parameters : parameters'[n] = parameters[n] ]_vars

C9_Witness ==
    /\ last.op = "add_parameter"
    /\ last.ok
    /\ Cardinality(DOMAIN parameters) = 2
    /\ parameters[last.ps[1].name] = last.ps[1]
    /\ parameter_constraints # <<>>

\* C10: update_parameter(p) fails and changes nothing when p.name is absent
\* or p.parameter_type differs from the stored parameter's type; on success
\* it replaces only the entry under p.name, and the names, the other
\* parameters and the constraint list are unchanged.
C10_UpdateParameter ==
    [][ last'.op = "update_parameter" =>
        LET p == last'.ps[1]
        IN  /\ parameter_constraints' = parameter_constraints
            /\ DOMAIN parameters' = DOMAIN parameters
            /\ IF \/ p.name \notin DOMAIN parameters
                  \/ p.parameter_type # parameters[p.name].parameter_type
               THEN ~last'.ok /\ parameters' = parameters
               ELSE /\ last'.ok
                    /\ parameters'[p.name] = p
                    /\ \A n \in DOMAIN parameters \ {p.name} :
                          parameters'[n] = parameters[n] ]_vars

\* A successful update in a space with two parameters and a constraint.
C10_Witness ==
    /\ last.op = "update_parameter"
    /\ last.ok
    /\ Cardinality(DOMAIN parameters) = 2
    /\ parameters[last.ps[1].name] = last.ps[1]
    /\ parameter_constraints # <<>>


Supplied == {last.pz[i].name : i \in DOMAIN last.pz}

\* C13: construct_arm fails when a supplied name is not in the space or a
\* supplied value other than None fails that parameter's validate; otherwise
\* the arm returned has exactly the space's names, each supplied name mapped
\* to the supplied value (a supplied None accepted unvalidated) and every
\* other name mapped to None.
C13_ConstructArm ==
    last.op = "construct_arm" =>
        /\ last.ok <=>
             \A i \in DOMAIN last.pz :
                /\ last.pz[i].name \in DOMAIN parameters
                /\ \/ last.pz[i].value = None
                   \/ validate(parameters[last.pz[i].name], last.pz[i].value)
        /\ last.ok =>
             /\ DOMAIN last.out = DOMAIN parameters
             /\ last.out_name = last.arm_name
             /\ \A i \in DOMAIN last.pz : last.out[last.pz[i].name] = last.pz[i].value
             /\ \A n \in DOMAIN parameters \ Supplied : last.out[n] = None

C13_Witness ==
    /\ last.op = "construct_arm"
    /\ last.ok
    /\ Cardinality(DOMAIN parameters) = 2
    /\ Len(last.pz) = 1
    /\ last.pz[1].value = None

\* C14: in every state of the space, also after add_parameter and
\* update_parameter, construct_arm() without arguments and
\* out_of_design_arm() return the same arm: its names are exactly the
\* space's current names and every one of them maps to None.
C14_OutOfDesignArm ==
    (last.op \in {"construct_arm", "out_of_design_arm"} /\ ~last.has_params) =>
        /\ last.ok
        /\ last.out = [n \in DOMAIN parameters |-> None]
        /\ last.out = out_of_design_arm(parameters).out
        /\ last.out = construct_arm(parameters, FALSE, <<>>, NoName).out
        /\ last.out_name = NoName
        /\ out_of_design_arm(parameters).out_name = NoName

C14_Witness ==
    /\ last.op = "out_of_design_arm"
    /\ Cardinality(DOMAIN parameters) = 2
    /\ \E n \in DOMAIN parameters : parameters[n].copy = 2
    /\ parameter_constraints # <<>>


\* Equality by value of two constraints: kind, bound, names and the
\* attributes of the Parameters referenced.
ConstraintEq(c, d) ==
    /\ c.kind = d.kind
    /\ c.bound = d.bound
    /\ c.constraint_dict = d.constraint_dict
    /\ DOMAIN c.parameters = DOMAIN d.parameters
    /\ \A i \in DOMAIN c.parameters : ParamEq(c.parameters[i], d.parameters[i])

\* The clone's parameters and constraints equal the space's.
CloneEqualByValue ==
    /\ DOMAIN clone.parameters = DOMAIN parameters
    /\ \A n \in DOMAIN parameters : ParamEq(clone.parameters[n], parameters[n])
    /\ DOMAIN clone.parameter_constraints = DOMAIN parameter_constraints
    /\ \A i \in DOMAIN parameter_constraints :
         ConstraintEq(clone.parameter_constraints[i], parameter_constraints[i])

\* The Parameter objects a space holds, in its dict and in its constraints.
ObjectsOf(params, pcs) ==
    {params[n] : n \in DOMAIN params}
        \cup UNION {{pcs[i].parameters[k] : k \in DOMAIN pcs[i].parameters} :
                       i \in DOMAIN pcs}

\* No Parameter, constraint or container of the clone is one of the space's.
CloneSharesNothing ==
    /\ ObjectsOf(clone.parameters, clone.parameter_constraints)
         \cap ObjectsOf(parameters, parameter_constraints) = {}
    /\ ~clone.shares_dict
    /\ ~clone.shares_list
    /\ clone.shares_constraints = {}

Mutators ==
    {"add_parameter", "update_parameter",
     "set_parameter_constraints", "add_parameter_constraints"}

\* C15: right after c = s.clone(), c's parameters and constraints equal s's
\* by value and no Parameter, constraint or container is shared between the
\* two; a later mutator call on c leaves s's parameters and constraints
\* unchanged, and a later mutator call on s leaves c's unchanged.
C15_CloneIndependent ==
    [][ /\ (last'.op = "clone" /\ last'.ok) =>
              (CloneEqualByValue /\ CloneSharesNothing)'
        /\ (last'.op \in Mutators /\ last'.target = "clone") =>
              /\ parameters' = parameters
              /\ parameter_constraints' = parameter_constraints
        /\ (last'.op \in Mutators /\ last'.target = "self") =>
              /\ clone'.parameters = clone.parameters
              /\ clone'.parameter_constraints = clone.parameter_constraints ]_vars

C15_Witness ==
    /\ clone.exists = "yes"
    /\ last.op = "add_parameter_constraints"
    /\ last.target = "clone"
    /\ last.ok
    /\ Len(clone.parameter_constraints) = 2
    /\ Len(parameter_constraints) = 1
    /\ parameter_constraints[1].kind = "order"


\* The places where name x is listed as a dependent: <<parent, trigger
\* value, position>>.
Occurrences(x) ==
    {o \in (DOMAIN parameters) \X (1..2) \X (1..2) :
        /\ o[2] \in DOMAIN parameters[o[1]].dependents
        /\ o[3] \in DOMAIN parameters[o[1]].dependents[o[2]]
        /\ parameters[o[1]].dependents[o[2]][o[3]] = x}

\* The names no hierarchical parameter lists under any value.
Candidates == {n \in DOMAIN parameters : Occurrences(n) = {}}

\* C16: the root candidates are the parameter names that no hierarchical
\* parameter lists as a dependent under any value; with exactly one
\* candidate that parameter is selected as root, with none or with two or
\* more construction fails (a chain A -> B -> C beside an independent D has
\* the candidates A and D and fails).
C16_RootDiscovery ==
    hss.state # "none" =>
        /\ hss.all_parameter_names = DOMAIN parameters
        /\ Cardinality(Candidates) = 1 =>
             /\ hss.root \in Candidates
             /\ hss.what # "no_unique_root"
        /\ Cardinality(Candidates) # 1 =>
             /\ hss.state = "failed"
             /\ hss.err = "NotImplementedError"
             /\ hss.what = "no_unique_root"

C16_Witness ==
    /\ hss.state = "failed"
    /\ hss.what = "no_unique_root"
    /\ DOMAIN parameters = {"A", "B", "C", "D"}
    /\ parameters["A"].dependents = << <<"B">> >>
    /\ parameters["B"].dependents = << <<"C">> >>
    /\ parameters["C"].dependents = <<>>
    /\ Candidates = {"A", "D"}

\* Name x is listed by two different parents or by one parent under two
\* different values.
SharedDependent(x) ==
    \E o, q \in Occurrences(x) : o[1] # q[1] \/ o[2] # q[2]

\* C17 as stated: whenever two branches list the same parameter name as a
\* dependent (two different parents, or one parent under two different
\* values), construction fails with an error that names that parameter.
C17_SharedDependentNamed ==
    hss.state # "none" =>
        \A x \in HNames :
            SharedDependent(x) => (hss.state = "failed" /\ x \in hss.err_names)

\* The names reachable from the names in S along dependents, S included.
RECURSIVE Closure(_, _)
Closure(S, k) ==
    LET next == S \cup UNION {Listed(parameters[n]) : n \in S \cap DOMAIN parameters}
    IN  IF k = 0 \/ next = S THEN S ELSE Closure(next, k - 1)

Descendants(S) == Closure(S, Cardinality(HNames))

\* Name x is listed more than once anywhere in the graph.
ListedTwice(x) == Cardinality(Occurrences(x)) >= 2

\* Every listed name is a parameter of the space, every hierarchical
\* parameter lists at least one name, and no parameter is its own
\* descendant.
WellFormedDependents ==
    \A n \in DOMAIN parameters :
        /\ Listed(parameters[n]) \subseteq DOMAIN parameters
        /\ is_hierarchical(parameters[n]) => Listed(parameters[n]) # {}
        /\ n \notin Descendants(Listed(parameters[n]))

\* C17, amended: whenever two branches list the same parameter name as a
\* dependent, construction fails.  The subtree-disjointness error carries
\* only names that are listed more than once or descend from such a name.
\* When there is exactly one root candidate, every listed name is in the
\* space, every hierarchical parameter lists a name and no parameter is its
\* own descendant, the failure is the subtree-disjointness error, and it
\* names the shared parameter if no other name is listed more than once.
C17_SharedDependentFails ==
    hss.state # "none" =>
        /\ \A x \in HNames : SharedDependent(x) => hss.state = "failed"
        /\ hss.what = "shared_subtrees" =>
             /\ hss.err = "UserInputError"
             /\ hss.err_names # {}
             /\ hss.err_names \subseteq
                  Descendants({x \in HNames : ListedTwice(x)})
        /\ (Cardinality(Candidates) = 1 /\ WellFormedDependents) =>
             \A x \in HNames :
                SharedDependent(x) =>
                    /\ hss.what = "shared_subtrees"
                    /\ (\A y \in HNames : ListedTwice(y) => y = x)
                          => x \in hss.err_names

C17_Witness ==
    /\ hss.what = "shared_subtrees"
    /\ DOMAIN parameters = {"A", "B", "C", "D"}
    /\ parameters["A"].dependents = << <<"B">>, <<"C">> >>
    /\ parameters["B"].dependents = << <<"D">> >>
    /\ parameters["C"].dependents = << <<"D">> >>
    /\ hss.err_names = {"D"}

\* C18 as stated: a parameter present in the space but not reachable from
\* the root makes construction fail with the error that names it as
\* unreachable.
C18_UnreachableNamed ==
    hss.state # "none" =>
        \A x \in DOMAIN parameters :
            (\E r \in Candidates : x \notin Descendants({r})) =>
                /\ hss.state = "failed"
                /\ hss.what = "unreachable"
                /\ x \in hss.err_names

\* The walk from the names in R meets no defect: every name listed below
\* them is a parameter, every hierarchical parameter below them lists a name,
\* and no name is listed twice below them.
WalkClean(R) ==
    LET below == Descendants(R)
    IN  /\ below \subseteq DOMAIN parameters
        /\ \A n \in below :
             /\ is_hierarchical(parameters[n]) => Listed(parameters[n]) # {}
             /\ Cardinality({o \in Occurrences(n) : o[1] \in below}) <= 1

\* C18, amended: construction succeeds only if the names visited from the
\* root are all the parameter names, so a parameter that is not reachable
\* from the root makes construction fail.  A parameter that no branch lists
\* is a root candidate: beside another candidate it fails root discovery,
\* which reports it among the candidates, not as unreachable.  The
\* unreachable error names exactly the parameters not reachable from the
\* unique root, each of them listed by some parameter; it is raised whenever
\* there is one candidate, the walk from it meets no defect and a parameter
\* is left over.
C18_Completeness ==
    hss.state # "none" =>
        /\ hss.state = "yes" => Descendants({hss.root}) = DOMAIN parameters
        /\ (\E r \in Candidates : ~(DOMAIN parameters \subseteq Descendants({r})))
             => hss.state = "failed"
        /\ Cardinality(Candidates) >= 2 =>
             /\ hss.what = "no_unique_root"
             /\ hss.err = "NotImplementedError"
             /\ Candidates \subseteq hss.err_names
        /\ hss.what = "unreachable" =>
             /\ hss.err = "UserInputError"
             /\ hss.err_names = DOMAIN parameters \ Descendants({hss.root})
             /\ hss.err_names # {}
             /\ \A x \in hss.err_names : Occurrences(x) # {}
        /\ (Cardinality(Candidates) = 1 /\ WalkClean(Candidates)
                /\ Descendants(Candidates) # DOMAIN parameters) =>
             hss.what = "unreachable"

C18_Witness ==
    /\ hss.what = "unreachable"
    /\ hss.root = "A"
    /\ DOMAIN parameters = {"A", "B", "C", "D"}
    /\ parameters["A"].dependents = << <<"D">> >>
    /\ parameters["B"].dependents = << <<"C">> >>
    /\ parameters["C"].dependents = << <<"B">> >>
    /\ hss.err_names = {"B", "C"}

\* The dependency graph is a single-rooted tree: exactly one parameter is
\* nobody's dependent, every other parameter is listed exactly once in the
\* whole graph, and every parameter is reachable from the root.
SingleRootedTree ==
    \E r \in DOMAIN parameters :
        /\ Candidates = {r}
        /\ \A x \in DOMAIN parameters \ {r} : Cardinality(Occurrences(x)) = 1
        /\ Descendants({r}) = DOMAIN parameters

\* C19: construction of a HierarchicalSearchSpace succeeds if and only if
\* the dependency graph over the given parameters is a single-rooted tree,
\* whatever its depth and branching.
C19_SucceedsIffTree ==
    hss.state # "none" => (hss.state = "yes" <=> SingleRootedTree)

\* C20: on a HierarchicalSearchSpace flatten() and cast_arm(arm) fail with a
\* not-implemented error for every input, return nothing the base class's
\* cast_arm would have returned, and leave the space as it was.
C20_NotImplemented ==
    [][ last'.op \in {"flatten", "HierarchicalSearchSpace.cast_arm"} =>
          /\ ~last'.ok
          /\ last'.err = "NotImplementedError"
          /\ last'.out = <<>>
          /\ last'.pz \in HArms
          /\ parameters' = parameters
          /\ parameter_constraints' = parameter_constraints
          /\ hss' = hss ]_vars

C20_Witness ==
    /\ last.op = "HierarchicalSearchSpace.cast_arm"
    /\ last.err = "NotImplementedError"
    /\ last.pz # <<>>
    /\ cast_arm(parameters, ArmDict(last.pz), last.arm_name).ok
    /\ cast_arm(parameters, ArmDict(last.pz), last.arm_name).out # ArmDict(last.pz)

\* C23: across add_parameter and update_parameter calls the parameter_type
\* stored under a name never changes once the name is in the space, and no
\* name is ever removed from parameters.
C23_TypesAndNamesStay ==
    [][ \A n \in DOMAIN parameters :
            /\ n \in DOMAIN parameters'
            /\ parameters'[n].parameter_type = parameters[n].parameter_type ]_vars

C23_Witness ==
    /\ last.op = "update_parameter"
    /\ ~last.ok
    /\ last.err = "type_mismatch"
    /\ parameters[last.ps[1].name].parameter_type # last.ps[1].parameter_type

\* C24: on success set_parameter_constraints(cs) makes parameter_constraints
\* exactly the sequence cs, in order and with nothing of the previous list
\* left, and add_parameter_constraints(cs) makes it the previous sequence
\* followed by cs in order; neither changes parameters.
C24_ReplaceAndAppend ==
    [][ /\ (last'.op = "set_parameter_constraints" /\ last'.ok) =>
              /\ parameter_constraints' = last'.cs_out
              /\ Len(parameter_constraints') = Len(last'.cs_in)
              /\ \A i \in DOMAIN last'.cs_in :
                    ConstraintEq(parameter_constraints'[i], last'.cs_in[i])
              /\ parameters' = parameters
        /\ (last'.op = "add_parameter_constraints" /\ last'.ok) =>
              /\ parameter_constraints' = parameter_constraints \o last'.cs_in
              /\ parameters' = parameters ]_vars

C24_Witness ==
    /\ last.op = "add_parameter_constraints"
    /\ last.ok
    /\ Len(last.cs_in) = 1
    /\ Len(parameter_constraints) = 2
    /\ parameter_constraints[1] # parameter_constraints[2]

\* The parameterizations holding the entries of dict d, in any order.
OrderingsOf(d) ==
    {pz \in [1..Cardinality(DOMAIN d) -> {Entry(n, d[n]) : n \in DOMAIN d}] :
        \A n \in DOMAIN d : \E i \in DOMAIN pz : pz[i].name = n}

\* C29: in every state of the space the parameterization of the arm
\* out_of_design_arm() returns passes check_types with allow_none=True.
C29_OutOfDesignArmTypeChecks ==
    last.op = "out_of_design_arm" =>
        \A pz \in OrderingsOf(last.out) : \A raise_error \in BOOLEAN :
            check_types(parameters, parameter_constraints, pz, TRUE, raise_error).ret
                = "True"

C29_Witness ==
    /\ last.op = "out_of_design_arm"
    /\ DOMAIN last.out = {"a", "b"}
    /\ parameters["b"].parameter_type = "STRING"
    /\ check_types(parameters, parameter_constraints,
                   <<Entry("a", None), Entry("b", None)>>, FALSE, FALSE).ret = "False"

StructuralFailures == {"no_unique_root", "shared_subtrees", "unreachable"}

\* C21 as stated: every structural failure of construction (no unique root,
\* two subtrees sharing a parameter, parameters unreachable from the root)
\* is a user-input-class error.
C21_UserInputErrors ==
    (last.op = "HierarchicalSearchSpace" /\ hss.what \in StructuralFailures) =>
        hss.err = "UserInputError"

\* C21, amended: shared subtrees and unreachable parameters are raised as
\* UserInputError carrying the offending names (the names the two subtrees
\* share; the names not reachable from the root); a missing unique root is
\* raised as NotImplementedError, whose message carries the dependent names
\* and the root candidates.
C21_StructuralErrors ==
    last.op = "HierarchicalSearchSpace" =>
        /\ hss.what = "shared_subtrees" =>
             /\ hss.err = "UserInputError"
             /\ hss.err_names # {}
             /\ hss.err_names \subseteq DOMAIN parameters
        /\ hss.what = "unreachable" =>
             /\ hss.err = "UserInputError"
             /\ hss.err_names # {}
             /\ hss.err_names = DOMAIN parameters \ Descendants({hss.root})
        /\ hss.what = "no_unique_root" =>
             /\ hss.err = "NotImplementedError"
             /\ hss.err_names =
                  Candidates \cup UNION {Listed(parameters[n]) : n \in DOMAIN parameters}

C21_Witness ==
    /\ last.op = "HierarchicalSearchSpace"
    /\ hss.what = "no_unique_root"
    /\ Candidates = {}
    /\ DOMAIN parameters = {"A", "B"}
    /\ hss.err_names = {"A", "B"}

\* C25: tree validation of a hierarchical parameter returns the parameter
\* itself plus the visited sets of its subtrees; when its dependents name no
\* parameter at all the visited set is the parameter itself and validation
\* does not fail at that node.
C25_EmptyDependentsAreLeaves ==
    last.op = "HierarchicalSearchSpace" =>
        \A n \in DOMAIN parameters :
            is_hierarchical(parameters[n]) =>
                LET r == check_subtree(parameters, n, Cardinality(DOMAIN parameters), FALSE)
                IN  /\ r.err = "none" => r.names = Descendants({n})
                    /\ Listed(parameters[n]) = {} => r = Ok({n})

\* The hierarchical checks of __init__ pass on the current parameters.
StillValid == hierarchical_init(parameters).state = "yes"

\* C22: on a constructed HierarchicalSearchSpace, add_parameter and
\* update_parameter leave the root and all_parameter_names unchanged and run
\* no root discovery or validation: they succeed exactly under the base-class
\* conditions (add: the name is new; update: the name is present with the
\* same parameter_type), also when the resulting parameters no longer pass the
\* hierarchical checks, and a success changes the parameters as in the base
\* class.
C22_MutatorsKeepRoot ==
    [][ (hss.state = "yes" /\ last'.op \in {"add_parameter", "update_parameter"}) =>
          LET p == last'.ps[1]
          IN  /\ hss' = hss
              /\ last'.op = "add_parameter" =>
                    (last'.ok <=> p.name \notin DOMAIN parameters)
              /\ last'.op = "update_parameter" =>
                    (last'.ok <=> /\ p.name \in DOMAIN parameters
                                  /\ parameters[p.name].parameter_type = p.parameter_type)
              /\ last'.ok =>
                    /\ DOMAIN parameters' = DOMAIN parameters \cup {p.name}
                    /\ parameters'[p.name] = p
                    /\ \A n \in DOMAIN parameters \ {p.name} :
                          parameters'[n] = parameters[n]
              /\ ~last'.ok => parameters' = parameters ]_vars

\* An added parameter is a second independent parameter: the call succeeded,
\* all_parameter_names no longer equals the current names and the checks of
\* __init__ would now fail for lack of a unique root.
C22_Witness ==
    /\ hss.state = "yes"
    /\ last.op = "add_parameter" /\ last.ok
    /\ hss.all_parameter_names # DOMAIN parameters
    /\ Cardinality(Candidates) = 2
    /\ ~StillValid

\* C27: in every state reached by add_parameter, update_parameter,
\* set_parameter_constraints and add_parameter_constraints calls, clone()
\* succeeds, and the clone has the same parameter names and as many
\* constraints, of the same kinds in the same order, as the original.
C27_CloneAlwaysSucceeds ==
    constructed = "yes" =>
        LET c == clone_(parameters, parameter_constraints)
        IN  /\ c.exists = "yes"
            /\ DOMAIN c.parameters = DOMAIN parameters
            /\ Len(c.parameter_constraints) = Len(parameter_constraints)
            /\ \A i \in DOMAIN parameter_constraints :
                  c.parameter_constraints[i].kind = parameter_constraints[i].kind

\* C28: an add_parameter_constraints(ds) call on a space that was constructed
\* with, or set to, the caller's list cs changes only the space's own
\* sequence: the caller's list keeps exactly the elements it had, and the
\* parameter_constraints of a second space given the same list stay as they
\* were.
C28_AddLeavesCallersList ==
    [][ (last'.op = "add_parameter_constraints" /\ last'.target = "self") =>
            /\ caller'.list = caller.list
            /\ caller'.second_pcs = caller.second_pcs ]_vars

\* The second half of C28 alone: a second space given the same list does not
\* see the constraints added to the first.
SecondSpaceUnaffected ==
    [][ (last'.op = "add_parameter_constraints" /\ caller.second = "yes") =>
            caller'.second_pcs = caller.second_pcs ]_vars

\* The walk taken step by step ends as _check_subtree computed at once.
WalkAgrees ==
    walk.state = "done" => hss = hierarchical_init(parameters)

\* C26: HierarchicalSearchSpace construction terminates, with success or
\* with an error, on every parameter set, also when the unique root reaches
\* a cycle or a parameter lists itself: a construction that has started
\* returns or raises.
C26_ConstructionTerminates ==
    (walk.state = "running") ~> (walk.state = "done" /\ hss.state \in {"yes", "failed"})

\* C lists A, A lists B, B lists A: C is the unique root, the walk has run
\* into the cycle and construction has ended with RecursionError.
C26_Witness ==
    /\ walk.state = "done"
    /\ hss.root = "C"
    /\ DOMAIN parameters = {"A", "B", "C"}
    /\ Listed(parameters["C"]) = {"A"}
    /\ Listed(parameters["A"]) = {"B"}
    /\ Listed(parameters["B"]) = {"A"}
    /\ hss.err = "RecursionError"

\* A parameter that lists itself below the unique root.
SelfListingEnds ==
    /\ walk.state = "done"
    /\ hss.root = "C"
    /\ "A" \in DOMAIN parameters
    /\ "A" \in Listed(parameters["A"])
    /\ hss.err = "RecursionError"

====
